---------------------------- MODULE Spec2Model ----------------------------
(***************************************************************************)
(* A model of the DressUp AI monitoring tools (src/monitoring).            *)
(*                                                                         *)
(*   SpecValidator   one run of validate-monitoring.py: main and           *)
(*                   MonitoringValidator.run_validation                    *)
(*   SpecReport      a MonitoringValidator object used through             *)
(*                   log_test_result and generate_validation_report,       *)
(*                   followed by the tail of main                          *)
(*   SpecLogMetrics  one run of create-log-metrics.py                      *)
(*   SpecBudgets     one run of create-budget-alerts.py                    *)
(*   SpecDashboard   one run of create-dashboard.py                        *)
(*   SpecProvisioners  one run of any of the three provisioning tools      *)
(*   SpecProvisionThenValidate  one run of create-budget-alerts.py, then   *)
(*                   test_budget_alerts listing the budgets it created     *)
(*                                                                         *)
(* The cloud endpoints and the configuration files are the environment:    *)
(* what they answer is chosen with \E in the action that calls them.       *)
(***************************************************************************)
EXTENDS Integers, Sequences, FiniteSets, TLC

VARIABLES
    pc,           \* position of the running tool
    results,      \* MonitoringValidator.results
    report,       \* the value returned by generate_validation_report
    exitStatus,   \* process exit status, NoExit while running
    error,        \* the exception that ended the run, "none" otherwise
    ran,          \* the steps of run_validation entered so far; for
                  \* create-dashboard.py, "validate" and "client" once done
    billing,      \* what get_project_billing_info answered in this run
    answers,      \* what the files and endpoints answered to the calls of
                  \* the test group of run_validation that ran last
    calls,        \* the cloud API calls issued so far, in order
    catalog,      \* log-metrics.yaml: config['metrics']
    idx,          \* index of the next catalog entry of main's loop
    successful_metrics,
    failed_metrics,
    counted,      \* per processed entry, the counter main incremented for it
    output,       \* lines printed by the provisioning tools
    args,         \* create-budget-alerts.py: the parsed command line
    budgets_created,
    dashboard_config,  \* create-dashboard.py: the loaded dashboard.json
    metrics_yaml,      \* create-dashboard.py: metrics_config
    issues        \* create-dashboard.py: validate_metrics_references' result

vars == <<pc, results, report, exitStatus, error, ran, billing, answers, calls,
          catalog, idx, successful_metrics, failed_metrics, counted, output,
          args, budgets_created, dashboard_config, metrics_yaml, issues>>

validatorVars == <<results, report, ran, billing, answers>>
metricsVars ==
    <<catalog, idx, successful_metrics, failed_metrics, counted, output>>
budgetVars == <<args, budgets_created>>
dashboardVars == <<dashboard_config, metrics_yaml, issues>>

(***************************************************************************)
(* Bounds of the model.                                                    *)
(***************************************************************************)
MaxEntries == 2
MaxBudgets == 2
MaxTiles == 2
MaxSeries == 1
MaxTests == 4
MaxCatalog == 2

\* exitStatus while the process is running.
NoExit == 0 - 1
NoReport == [generated |-> FALSE]
\* answers before any test group ran.
NoAnswers == [step |-> "none"]
\* args, dashboard_config and metrics_config before main has set them.
NoArgs == [daily_budget |-> 0, monthly_budget |-> 0, email |-> "none"]
NoDashboard == [file |-> "unread", keys |-> {}, tiles |-> <<>>]
NoMetrics == [file |-> "unread", metrics |-> <<>>]

(***************************************************************************)
(* Text.  TLA+ strings are atoms, so a text the code searches is given by  *)
(* its characters; Lower and Contains are str.lower and the `in' operator. *)
(***************************************************************************)
UpperCase == <<"A", "B", "C", "D", "E", "F", "G", "H", "I", "J", "K", "L", "M",
               "N", "O", "P", "Q", "R", "S", "T", "U", "V", "W", "X", "Y", "Z">>
LowerCase == <<"a", "b", "c", "d", "e", "f", "g", "h", "i", "j", "k", "l", "m",
               "n", "o", "p", "q", "r", "s", "t", "u", "v", "w", "x", "y", "z">>

LowerChar(c) ==
    IF \E i \in 1..Len(UpperCase) : UpperCase[i] = c
    THEN LowerCase[CHOOSE i \in 1..Len(UpperCase) : UpperCase[i] = c]
    ELSE c

Lower(s) == [i \in 1..Len(s) |-> LowerChar(s[i])]

Contains(sub, s) ==
    \E k \in 0..(Len(s) - Len(sub)) :
        \A i \in 1..Len(sub) : s[k + i] = sub[i]

DressUpAI == <<"D", "r", "e", "s", "s", "U", "p", " ", "A", "I">>

\* Display names the budget and dashboard endpoints may return, with their
\* characters.  ProvisionedNames are the names create-budget-alerts.py gives
\* to the budgets it creates for the amounts of the model.
BudgetNames == {"DressUp AI - Daily Budget ($50)",
                "DressUp AI - Monthly Budget ($1500)",
                "dressup ai - legacy"}

ProvisionedNames == {"DressUp AI - Daily Budget ($50)",
                     "DressUp AI - Daily Budget ($7)",
                     "DressUp AI - Monthly Budget ($1500)",
                     "DressUp AI - Monthly Budget ($1501)",
                     "DressUp AI - Monthly Budget ($1)",
                     "DressUp AI - Vertex AI Budget ($750)",
                     "DressUp AI - Vertex AI Budget ($0)"}

DashboardNames == {"DressUp AI Monitoring Dashboard", "Other"}

NameChars(n) ==
    CASE n = "DressUp AI - Daily Budget ($50)" ->
            DressUpAI \o <<" ", "-", " ", "D", "a", "i", "l", "y", " ", "B", "u",
                           "d", "g", "e", "t", " ", "(", "$", "5", "0", ")">>
      [] n = "DressUp AI - Monthly Budget ($1500)" ->
            DressUpAI \o <<" ", "-", " ", "M", "o", "n", "t", "h", "l", "y", " ",
                           "B", "u", "d", "g", "e", "t", " ", "(", "$", "1", "5",
                           "0", "0", ")">>
      [] n = "DressUp AI Monitoring Dashboard" ->
            DressUpAI \o <<" ", "M", "o", "n", "i", "t", "o", "r", "i", "n", "g",
                           " ", "D", "a", "s", "h", "b", "o", "a", "r", "d">>
      [] n = "dressup ai - legacy" ->
            <<"d", "r", "e", "s", "s", "u", "p", " ", "a", "i", " ", "-", " ",
              "l", "e", "g", "a", "c", "y">>
      [] n = "DressUp AI - Daily Budget ($7)" ->
            DressUpAI \o <<" ", "-", " ", "D", "a", "i", "l", "y", " ", "B",
                           "u", "d", "g", "e", "t", " ", "(", "$", "7", ")">>
      [] n = "DressUp AI - Monthly Budget ($1501)" ->
            DressUpAI \o <<" ", "-", " ", "M", "o", "n", "t", "h", "l", "y",
                           " ", "B", "u", "d", "g", "e", "t", " ", "(", "$",
                           "1", "5", "0", "1", ")">>
      [] n = "DressUp AI - Monthly Budget ($1)" ->
            DressUpAI \o <<" ", "-", " ", "M", "o", "n", "t", "h", "l", "y",
                           " ", "B", "u", "d", "g", "e", "t", " ", "(", "$",
                           "1", ")">>
      [] n = "DressUp AI - Vertex AI Budget ($750)" ->
            DressUpAI \o <<" ", "-", " ", "V", "e", "r", "t", "e", "x", " ",
                           "A", "I", " ", "B", "u", "d", "g", "e", "t", " ",
                           "(", "$", "7", "5", "0", ")">>
      [] n = "DressUp AI - Vertex AI Budget ($0)" ->
            DressUpAI \o <<" ", "-", " ", "V", "e", "r", "t", "e", "x", " ",
                           "A", "I", " ", "B", "u", "d", "g", "e", "t", " ",
                           "(", "$", "0", ")">>
      [] OTHER -> <<"O", "t", "h", "e", "r">>

\* Faulty variant: the name is searched without regard to case.
IsDressUpName_IgnoreCase(n) == Contains(Lower(DressUpAI), Lower(NameChars(n)))

\* 'DressUp AI' in display_name
IsDressUpName(n) == Contains(DressUpAI, NameChars(n))

\* f'Budget threshold configuration - {budget.display_name}'
ThresholdTestName(n) ==
    CASE n = "DressUp AI - Daily Budget ($50)" ->
            "Budget threshold configuration - DressUp AI - Daily Budget ($50)"
      [] n = "DressUp AI - Monthly Budget ($1500)" ->
            "Budget threshold configuration - DressUp AI - Monthly Budget ($1500)"
      [] n = "dressup ai - legacy" ->
            "Budget threshold configuration - dressup ai - legacy"
      [] n = "DressUp AI - Daily Budget ($7)" ->
            "Budget threshold configuration - DressUp AI - Daily Budget ($7)"
      [] n = "DressUp AI - Monthly Budget ($1501)" ->
            "Budget threshold configuration - DressUp AI - Monthly Budget ($1501)"
      [] n = "DressUp AI - Monthly Budget ($1)" ->
            "Budget threshold configuration - DressUp AI - Monthly Budget ($1)"
      [] n = "DressUp AI - Vertex AI Budget ($750)" ->
            "Budget threshold configuration - DressUp AI - Vertex AI Budget ($750)"
      [] n = "DressUp AI - Vertex AI Budget ($0)" ->
            "Budget threshold configuration - DressUp AI - Vertex AI Budget ($0)"
      [] OTHER -> "Budget threshold configuration - Other"

(***************************************************************************)
(* MonitoringValidator.__init__ and log_test_result                        *)
(***************************************************************************)
Categories == <<"structured_logging", "log_metrics", "dashboard", "budgets">>
CategorySet == {Categories[i] : i \in 1..Len(Categories)}

InitResults ==
    [c \in CategorySet \cup {"overall"} |->
        IF c = "overall"
        THEN [passed |-> 0, failed |-> 0]
        ELSE [passed |-> 0, failed |-> 0, tests |-> <<>>]]

\* results[category]['tests'] exists; otherwise line 42 raises KeyError
\* before anything is changed.
CanLog(res, category) == "tests" \in DOMAIN res[category]

\* Faulty variant: a failed test is counted in its category only.
LogTestResult_FailedNotOverall(res, category, test_name, passed, details) ==
    LET appended ==
            [res EXCEPT ![category].tests =
                Append(@, [name |-> test_name, passed |-> passed,
                           details |-> details])]
    IN  IF passed
        THEN [appended EXCEPT ![category].passed = @ + 1,
                              !["overall"].passed = @ + 1]
        ELSE [appended EXCEPT ![category].failed = @ + 1]

\* A test's details are kept as the message without the numbers and names
\* the code formats into it.
LogTestResult(res, category, test_name, passed, details) ==
    LET appended ==
            [res EXCEPT ![category].tests =
                Append(@, [name |-> test_name, passed |-> passed,
                           details |-> details])]
    IN  IF passed
        THEN [appended EXCEPT ![category].passed = @ + 1,
                              !["overall"].passed = @ + 1]
        ELSE [appended EXCEPT ![category].failed = @ + 1,
                              !["overall"].failed = @ + 1]

\* What a test group hands back: the results, the API calls it issued and
\* the exception that left it uncaught ("none" when it returned).
Outcome(res, cs, raised) == [res |-> res, calls |-> cs, raised |-> raised]

Call(op, arg) == [op |-> op, arg |-> arg]

(***************************************************************************)
(* test_structured_logging                                                 *)
(***************************************************************************)
RequiredFields == {"eventType", "timestamp", "functionName"}

\* The payload of the first entry: without structuredData, one whose
\* structuredData cannot be searched (raises), or a mapping with some fields.
Payloads ==
    {[kind |-> "absent", fields |-> {}], [kind |-> "unreadable", fields |-> {}]}
    \cup {[kind |-> "dict", fields |-> f] : f \in SUBSET RequiredFields}

StructuredLogging(res, listRaises, nEntries, payload) ==
    LET cs == <<Call("list_entries", "structuredData")>>
        access == LogTestResult(res, "structured_logging",
                      "Structured logging access", FALSE, "Error accessing logs")
        present == LogTestResult(res, "structured_logging",
                       "Structured logs present", TRUE,
                       "Found structured log entries")
        missing_fields == RequiredFields \ payload.fields
    IN  IF listRaises THEN Outcome(access, cs, "none")
        ELSE IF nEntries = 0
        THEN Outcome(LogTestResult(res, "structured_logging",
                         "Structured logs present", FALSE,
                         "No structured logs found"), cs, "none")
        ELSE IF payload.kind = "unreadable"
        THEN Outcome(LogTestResult(present, "structured_logging",
                         "Structured logging access", FALSE,
                         "Error accessing logs"), cs, "none")
        ELSE IF payload.kind = "absent"
        THEN Outcome(LogTestResult(present, "structured_logging",
                         "Log structure validation", FALSE,
                         "No structured data found in log payload"), cs, "none")
        ELSE Outcome(LogTestResult(present, "structured_logging",
                         "Log structure validation", missing_fields = {},
                         IF missing_fields = {} THEN "All required fields present"
                         ELSE "Missing fields"),
                     cs, "none")

(***************************************************************************)
(* test_log_metrics                                                        *)
(***************************************************************************)
DefaultMetrics ==
    <<"session_creation_rate", "generation_requests_total",
      "generation_success_rate", "generation_latency_ms",
      "vertex_ai_latency_ms", "feedback_ratings", "error_rate">>

\* What reading log-metrics.yaml gives: the file is missing, it does not
\* load into a list of named metrics, or the list of names it holds.
MetricConfigs ==
    {[file |-> "missing", names |-> <<>>], [file |-> "malformed", names |-> <<>>]}
    \cup {[file |-> "ok", names |-> n] :
            n \in {<<>>, <<"custom_metric", "error_rate">>,
                   <<"error_rate", "custom_metric">>}}

\* Metric descriptors of the project: user |-> TRUE stands for a type that
\* starts with 'logging.googleapis.com/user/', name for what follows it.
Descriptors ==
    {[user |-> TRUE, name |-> "error_rate"], [user |-> FALSE, name |-> "error_rate"],
     [user |-> TRUE, name |-> "custom_metric"]}

\* Faulty variant: the existence test passes only when no expected metric is
\* missing.
LogMetrics_NoneMissing(res, config, descRaises, descriptors, seriesRaises, nSeries) ==
    LET expected_metrics ==
            IF config.file = "missing" THEN DefaultMetrics ELSE config.names
        listCall == Call("list_metric_descriptors", "")
        user_metrics == {d.name : d \in {x \in descriptors : x.user}}
        found_metrics == SelectSeq(expected_metrics, LAMBDA m : m \in user_metrics)
        missing_metrics ==
            SelectSeq(expected_metrics, LAMBDA m : m \notin user_metrics)
        existence == LogTestResult(res, "log_metrics", "Log metrics existence",
                         Len(missing_metrics) = 0,
                         "Found, Missing")
        seriesCall == Call("list_time_series", found_metrics[1])
    IN  IF config.file = "malformed" THEN Outcome(res, <<>>, "ConfigError")
        ELSE IF descRaises
        THEN Outcome(LogTestResult(res, "log_metrics", "Log metrics access", FALSE,
                         "Error accessing metrics"), <<listCall>>, "UnboundLocalError")
        ELSE IF Len(found_metrics) = 0 THEN Outcome(existence, <<listCall>>, "none")
        ELSE IF seriesRaises
        THEN Outcome(LogTestResult(existence, "log_metrics", "Metric data query",
                         FALSE, "Error querying metric data"),
                     <<listCall, seriesCall>>, "none")
        ELSE Outcome(LogTestResult(existence, "log_metrics",
                         "Metric data availability", nSeries > 0,
                         "Found time series"),
                     <<listCall, seriesCall>>, "none")

LogMetrics(res, config, descRaises, descriptors, seriesRaises, nSeries) ==
    LET expected_metrics ==
            IF config.file = "missing" THEN DefaultMetrics ELSE config.names
        listCall == Call("list_metric_descriptors", "")
        user_metrics == {d.name : d \in {x \in descriptors : x.user}}
        found_metrics == SelectSeq(expected_metrics, LAMBDA m : m \in user_metrics)
        missing_metrics ==
            SelectSeq(expected_metrics, LAMBDA m : m \notin user_metrics)
        existence == LogTestResult(res, "log_metrics", "Log metrics existence",
                         Len(found_metrics) > 0,
                         "Found, Missing")
        seriesCall == Call("list_time_series", found_metrics[1])
    IN  IF config.file = "malformed" THEN Outcome(res, <<>>, "ConfigError")
        ELSE IF descRaises
        THEN \* found_metrics is unbound at line 182
             Outcome(LogTestResult(res, "log_metrics", "Log metrics access", FALSE,
                         "Error accessing metrics"), <<listCall>>, "UnboundLocalError")
        ELSE IF Len(found_metrics) = 0 THEN Outcome(existence, <<listCall>>, "none")
        ELSE IF seriesRaises
        THEN Outcome(LogTestResult(existence, "log_metrics", "Metric data query",
                         FALSE, "Error querying metric data"),
                     <<listCall, seriesCall>>, "none")
        ELSE Outcome(LogTestResult(existence, "log_metrics",
                         "Metric data availability", nSeries > 0,
                         "Found time series"),
                     <<listCall, seriesCall>>, "none")

(***************************************************************************)
(* test_dashboard                                                          *)
(***************************************************************************)
\* A tile holds one widget; filters are the filter strings of an xy chart's
\* data sets or of a scorecard.
UserMetricFilter == "metric.type=\"logging.googleapis.com/user/error_rate\""
OtherFilter == "resource.type=\"cloud_function\""

\* 'logging.googleapis.com/user/' in filter_str
MentionsUserMetric(f) == f = UserMetricFilter

Tiles ==
    {[widget |-> "xy_chart", filters |-> <<UserMetricFilter>>],
     [widget |-> "xy_chart", filters |-> <<OtherFilter>>],
     [widget |-> "scorecard", filters |-> <<UserMetricFilter>>],
     [widget |-> "scorecard", filters |-> <<OtherFilter>>],
     [widget |-> "text", filters |-> <<>>]}

SeqsUpTo(S, n) == UNION {[1..k -> S] : k \in 0..n}

RECURSIVE SumSeq(_)
SumSeq(s) == IF s = <<>> THEN 0 ELSE s[1] + SumSeq(Tail(s))

Dashboard(res, listRaises, dashboards) ==
    LET cs == <<Call("list_dashboards", "")>>
        dressup_dashboards ==
            SelectSeq(dashboards, LAMBDA d : IsDressUpName(d.display_name))
        existence == LogTestResult(res, "dashboard", "Dashboard existence",
                         Len(dressup_dashboards) > 0,
                         "Found DressUp AI dashboard(s)")
        dashboard == dressup_dashboards[1]
        tiles == dashboard.tiles
        widget_types ==
            SelectSeq(tiles, LAMBDA t : t.widget \in {"xy_chart", "scorecard"})
        metric_references ==
            SumSeq([i \in 1..Len(tiles) |->
                Len(SelectSeq(tiles[i].filters, MentionsUserMetric))])
        widgets == LogTestResult(existence, "dashboard",
                       "Dashboard widget configuration", Len(widget_types) > 0,
                       "Found widgets")
    IN  IF listRaises
        THEN Outcome(LogTestResult(res, "dashboard", "Dashboard access", FALSE,
                         "Error accessing dashboard"), cs, "none")
        ELSE IF Len(dressup_dashboards) = 0 THEN Outcome(existence, cs, "none")
        ELSE IF ~dashboard.mosaic_layout
        THEN Outcome(LogTestResult(existence, "dashboard",
                         "Dashboard layout validation", FALSE,
                         "Dashboard has no mosaic layout"), cs, "none")
        ELSE Outcome(LogTestResult(widgets, "dashboard",
                         "Dashboard metric references", metric_references > 0,
                         "Found metric references"),
                     cs, "none")

(***************************************************************************)
(* test_budget_alerts                                                      *)
(***************************************************************************)
ThresholdCounts == {3, 4, 5}

Budgets == [display_name : BudgetNames, threshold_rules : ThresholdCounts]

RECURSIVE ThresholdTests(_, _)
ThresholdTests(res, budgets) ==
    IF budgets = <<>> THEN res
    ELSE ThresholdTests(
             LogTestResult(res, "budgets",
                 ThresholdTestName(budgets[1].display_name),
                 budgets[1].threshold_rules >= 4,
                 "Has threshold rules"),
             Tail(budgets))

\* Faulty variant: without the return of line 317, a disabled billing account falls
\* through to the budget listing.
BudgetAlerts_NoReturn(res, billingAnswer, listRaises, budget_list) ==
    LET infoCall == Call("get_project_billing_info", "")
        listCall == Call("list_budgets", "")
        logged == LogTestResult(res, "budgets", "Billing enabled",
                      billingAnswer = "enabled", "Billing")
        dressup_budgets ==
            SelectSeq(budget_list, LAMBDA b : IsDressUpName(b.display_name))
        existence == LogTestResult(logged, "budgets", "Budget alerts existence",
                         Len(dressup_budgets) > 0, "Found DressUp AI budget(s)")
    IN  IF billingAnswer = "raises"
        THEN Outcome(LogTestResult(res, "budgets", "Billing API access", FALSE,
                         "Error accessing billing API"), <<infoCall>>, "none")
        ELSE IF listRaises
        THEN Outcome(LogTestResult(logged, "budgets", "Budget alerts access",
                         FALSE, "Error accessing budgets"),
                     <<infoCall, listCall>>, "none")
        ELSE Outcome(ThresholdTests(existence, dressup_budgets),
                     <<infoCall, listCall>>, "none")

BudgetAlerts(res, billingAnswer, listRaises, budget_list) ==
    LET infoCall == Call("get_project_billing_info", "")
        listCall == Call("list_budgets", "")
        enabled == LogTestResult(res, "budgets", "Billing enabled", TRUE,
                       "Project has billing enabled")
        dressup_budgets ==
            SelectSeq(budget_list, LAMBDA b : IsDressUpName(b.display_name))
        existence == LogTestResult(enabled, "budgets", "Budget alerts existence",
                         Len(dressup_budgets) > 0,
                         "Found DressUp AI budget(s)")
    IN  IF billingAnswer = "raises"
        THEN Outcome(LogTestResult(res, "budgets", "Billing API access", FALSE,
                         "Error accessing billing API"), <<infoCall>>, "none")
        ELSE IF billingAnswer = "disabled"
        THEN Outcome(LogTestResult(res, "budgets", "Billing enabled", FALSE,
                         "Billing is not enabled for this project"),
                     <<infoCall>>, "none")
        ELSE IF listRaises
        THEN Outcome(LogTestResult(enabled, "budgets", "Budget alerts access",
                         FALSE, "Error accessing budgets"),
                     <<infoCall, listCall>>, "none")
        ELSE Outcome(ThresholdTests(existence, dressup_budgets),
                     <<infoCall, listCall>>, "none")

(***************************************************************************)
(* test_end_to_end_flow                                                    *)
(***************************************************************************)
WorkingComponents(res) == SelectSeq(Categories, LAMBDA c : res[c].passed > 0)

EndToEndFlow(res) ==
    IF CanLog(res, "overall")
    THEN Outcome(LogTestResult(res, "overall", "Monitoring pipeline completeness",
                     Len(WorkingComponents(res)) >= 3,
                     "Working components"),
                 <<>>, "none")
    ELSE Outcome(res, <<>>, "KeyError")

(***************************************************************************)
(* generate_validation_report                                              *)
(***************************************************************************)
\* Faulty variant: a category without tests counts as fully successful.
SuccessRate_ZeroIsFull(passed, total) ==
    IF total > 0 THEN [num |-> passed * 100, den |-> total]
    ELSE [num |-> 100, den |-> 1]

\* passed / total * 100 if total > 0 else 0, kept as a fraction.
SuccessRate(passed, total) ==
    IF total > 0 THEN [num |-> passed * 100, den |-> total]
    ELSE [num |-> 0, den |-> 1]

\* Faulty variant: the threshold is strict (> 75).
Status_Strict(rate) == IF rate.num > 75 * rate.den THEN "PASS" ELSE "FAIL"

\* 'PASS' if success_rate >= 75 else 'FAIL'
Status(rate) == IF rate.num >= 75 * rate.den THEN "PASS" ELSE "FAIL"

\* f"{success_rate:.1f}%": the rate in tenths of a percent, rounded to the
\* nearest tenth, a tie to the even one (a tie needs a total that is a
\* multiple of 16).
FormatRate(rate) ==
    LET scaled == rate.num * 10
        q == scaled \div rate.den
        r == scaled % rate.den
    IN  IF 2 * r > rate.den \/ (2 * r = rate.den /\ q % 2 = 1) THEN q + 1 ELSE q

GenerateValidationReport(res) ==
    LET total_tests == res["overall"].passed + res["overall"].failed
        success_rate == SuccessRate(res["overall"].passed, total_tests)
    IN  [generated |-> TRUE,
         overall_status |-> Status(success_rate),
         success_rate |-> FormatRate(success_rate),
         total_tests |-> total_tests,
         passed_tests |-> res["overall"].passed,
         failed_tests |-> res["overall"].failed,
         categories |->
            [c \in CategorySet |->
                LET category_total == res[c].passed + res[c].failed
                    category_success == SuccessRate(res[c].passed, category_total)
                IN  [status |-> Status(category_success),
                     success_rate |-> FormatRate(category_success),
                     passed |-> res[c].passed,
                     failed |-> res[c].failed,
                     tests |-> res[c].tests]]]

(***************************************************************************)
(* validate-monitoring.py: main and run_validation                         *)
(***************************************************************************)
Steps == {"structured_logging", "log_metrics", "dashboard", "budgets", "e2e"}

InitValidator ==
    /\ pc = "start"
    /\ results = InitResults
    /\ report = NoReport
    /\ exitStatus = NoExit
    /\ error = "none"
    /\ ran = {}
    /\ billing = "unknown"
    /\ answers = NoAnswers
    /\ calls = <<>>
    /\ catalog = <<>>
    /\ idx = 1
    /\ successful_metrics = 0
    /\ failed_metrics = 0
    /\ counted = <<>>
    /\ output = <<>>
    /\ args = NoArgs
    /\ budgets_created = 0
    /\ dashboard_config = NoDashboard
    /\ metrics_yaml = NoMetrics
    /\ issues = <<>>

\* An exception that reaches main's handlers (lines 491-499): exit status 1.
Abort(exc) ==
    /\ error' = exc
    /\ exitStatus' = 1
    /\ pc' = "done"

\* A step of run_validation returned or raised.
Finish(step, o, next) ==
    /\ results' = o.res
    /\ calls' = calls \o o.calls
    /\ ran' = ran \cup {step}
    /\ IF o.raised = "none"
       THEN pc' = next /\ UNCHANGED <<error, exitStatus>>
       ELSE Abort(o.raised)

\* MonitoringValidator(args.project_id): the clients are built or raise.
Construct ==
    /\ pc = "start"
    /\ \E ok \in BOOLEAN :
          IF ok THEN pc' = "structured_logging" /\ UNCHANGED <<error, exitStatus>>
          ELSE Abort("ClientInit")
    /\ UNCHANGED <<validatorVars, calls, metricsVars,
                   budgetVars, dashboardVars>>

TestStructuredLogging ==
    /\ pc = "structured_logging"
    /\ \E listRaises \in BOOLEAN, nEntries \in 0..MaxEntries, payload \in Payloads :
          Finish("structured_logging",
                 StructuredLogging(results, listRaises, nEntries, payload),
                 "log_metrics")
    /\ answers' = [step |-> "structured_logging"]
    /\ UNCHANGED <<report, billing, metricsVars, budgetVars, dashboardVars>>

TestLogMetrics ==
    /\ pc = "log_metrics"
    /\ \E config \in MetricConfigs, descRaises \in BOOLEAN,
          descriptors \in SUBSET Descriptors, seriesRaises \in BOOLEAN,
          nSeries \in 0..MaxSeries :
          LET o == LogMetrics(results, config, descRaises, descriptors,
                              seriesRaises, nSeries)
              listed == Len(o.calls) >= 1 /\ ~descRaises
              queried == Len(o.calls) = 2 /\ ~seriesRaises
          IN  /\ Finish("log_metrics", o, "dashboard")
              /\ answers' =
                    [step |-> "log_metrics",
                     config |-> config,
                     descRaises |-> Len(o.calls) >= 1 /\ descRaises,
                     descriptors |-> IF listed THEN descriptors ELSE {},
                     seriesRaises |-> Len(o.calls) = 2 /\ seriesRaises,
                     nSeries |-> IF queried THEN nSeries ELSE 0]
    /\ UNCHANGED <<report, billing, metricsVars, budgetVars, dashboardVars>>

TestDashboard ==
    /\ pc = "dashboard"
    /\ \E listRaises \in BOOLEAN, names \in SeqsUpTo(DashboardNames, 2),
          layout \in BOOLEAN, tiles \in SeqsUpTo(Tiles, MaxTiles) :
          Finish("dashboard",
                 Dashboard(results, listRaises,
                     [i \in 1..Len(names) |->
                         [display_name |-> names[i], mosaic_layout |-> layout,
                          tiles |-> tiles]]),
                 "budgets")
    /\ answers' = [step |-> "dashboard"]
    /\ UNCHANGED <<report, billing, metricsVars, budgetVars, dashboardVars>>

TestBudgetAlerts ==
    /\ pc = "budgets"
    /\ \E billingAnswer \in {"raises", "disabled", "enabled"}, listRaises \in BOOLEAN,
          budget_list \in SeqsUpTo(Budgets, MaxBudgets) :
          /\ billing' = billingAnswer
          /\ Finish("budgets",
                    BudgetAlerts(results, billingAnswer, listRaises, budget_list),
                    "e2e")
          /\ answers' =
                [step |-> "budgets",
                 billing |-> billingAnswer,
                 listRaises |-> billingAnswer = "enabled" /\ listRaises,
                 budget_list |-> IF billingAnswer = "enabled" /\ ~listRaises
                                 THEN budget_list ELSE <<>>]
    /\ UNCHANGED <<report, metricsVars, budgetVars, dashboardVars>>

TestEndToEndFlow ==
    /\ pc = "e2e"
    /\ Finish("e2e", EndToEndFlow(results), "report")
    /\ answers' = [step |-> "e2e"]
    /\ UNCHANGED <<report, billing, metricsVars, budgetVars, dashboardVars>>

\* report = self.generate_validation_report() and the summary printed from it.
GenerateReport ==
    /\ pc = "report"
    /\ report' = GenerateValidationReport(results)
    /\ pc' = "reported"
    /\ UNCHANGED <<results, exitStatus, error, ran, billing, answers, calls,
                   metricsVars,
                   budgetVars, dashboardVars>>

\* main, lines 482-489: the report is saved when --report-file is given
\* (open or json.dump may raise), then sys.exit.
SaveAndExit ==
    /\ pc = "reported"
    /\ \E report_file \in {"none", "writable", "unwritable"} :
          IF report_file = "unwritable" THEN Abort("OSError")
          ELSE /\ exitStatus' = (IF report.overall_status = "PASS" THEN 0 ELSE 1)
               /\ pc' = "done"
               /\ UNCHANGED error
    /\ UNCHANGED <<validatorVars, calls, metricsVars,
                   budgetVars, dashboardVars>>

\* KeyboardInterrupt while the run is inside main's try block, taken between
\* two steps of the run.
Interrupt ==
    /\ pc \notin {"done"}
    /\ Abort("KeyboardInterrupt")
    /\ UNCHANGED <<validatorVars, calls, metricsVars,
                   budgetVars, dashboardVars>>

\* GenerateReport and SaveAndExit are not steps of a run: TestEndToEndFlow
\* never reaches pc = "report" (see EndToEndFlow and InitResults).
NextValidator ==
    \/ Construct
    \/ TestStructuredLogging
    \/ TestLogMetrics
    \/ TestDashboard
    \/ TestBudgetAlerts
    \/ TestEndToEndFlow
    \/ Interrupt

SpecValidator == InitValidator /\ [][NextValidator]_vars

(***************************************************************************)
(* A validator object driven through its methods: any tests recorded with  *)
(* log_test_result, then the report and the tail of main.                  *)
(***************************************************************************)
InitReport ==
    /\ pc = "testing"
    /\ results = InitResults
    /\ report = NoReport
    /\ exitStatus = NoExit
    /\ error = "none"
    /\ ran = {}
    /\ billing = "unknown"
    /\ answers = NoAnswers
    /\ calls = <<>>
    /\ catalog = <<>>
    /\ idx = 1
    /\ successful_metrics = 0
    /\ failed_metrics = 0
    /\ counted = <<>>
    /\ output = <<>>
    /\ args = NoArgs
    /\ budgets_created = 0
    /\ dashboard_config = NoDashboard
    /\ metrics_yaml = NoMetrics
    /\ issues = <<>>

RecordTest ==
    /\ pc = "testing"
    /\ results["overall"].passed + results["overall"].failed < MaxTests
    /\ \E category \in CategorySet \cup {"overall"}, passed \in BOOLEAN :
          IF CanLog(results, category)
          THEN /\ results' = LogTestResult(results, category, "test", passed, "")
               /\ UNCHANGED <<pc, error, exitStatus>>
          ELSE Abort("KeyError") /\ UNCHANGED results
    /\ UNCHANGED <<report, ran, billing, answers, calls, metricsVars,
                   budgetVars, dashboardVars>>

StartReport ==
    /\ pc = "testing"
    /\ pc' = "report"
    /\ UNCHANGED <<validatorVars, exitStatus, error, calls, metricsVars,
                   budgetVars, dashboardVars>>

NextReport ==
    \/ RecordTest
    \/ StartReport
    \/ GenerateReport
    \/ SaveAndExit

SpecReport == InitReport /\ [][NextReport]_vars

(***************************************************************************)
(* create-log-metrics.py                                                   *)
(***************************************************************************)
AlreadyExists ==
    <<"a", "l", "r", "e", "a", "d", "y", " ", "e", "x", "i", "s", "t", "s">>

\* Error texts the logging endpoint may answer a create call with.
CreateErrors == {"409 Metric already exists", "Already Exists",
                 "ALREADY_EXISTS", "403 Permission denied"}

ErrorChars(m) ==
    CASE m = "409 Metric already exists" ->
            <<"4", "0", "9", " ", "M", "e", "t", "r", "i", "c", " ">> \o AlreadyExists
      [] m = "Already Exists" ->
            <<"A", "l", "r", "e", "a", "d", "y", " ", "E", "x", "i", "s", "t", "s">>
      [] m = "ALREADY_EXISTS" ->
            <<"A", "L", "R", "E", "A", "D", "Y", "_", "E", "X", "I", "S", "T", "S">>
      [] OTHER ->
            <<"4", "0", "3", " ", "P", "e", "r", "m", "i", "s", "s", "i", "o", "n",
              " ", "d", "e", "n", "i", "e", "d">>

\* Faulty variant: the error text is searched without .lower().
IsAlreadyExists_CaseSensitive(m) == Contains(AlreadyExists, ErrorChars(m))

\* "already exists" in str(e).lower()
IsAlreadyExists(m) == Contains(AlreadyExists, Lower(ErrorChars(m)))

RequiredKeys == {"name", "description", "filter"}

\* A catalog entry: its name and the keys the mapping holds.
Entries ==
    {[name |-> n, keys |-> RequiredKeys] : n \in {"metric_a", "metric_b"}}
    \cup {[name |-> "metric_a", keys |-> RequiredKeys \ {"description"}],
          [name |-> "metric_b", keys |-> RequiredKeys \ {"filter"}],
          [name |-> "unknown", keys |-> RequiredKeys \ {"name"}]}

ApiCall(op, arg, answer, entry) ==
    [op |-> op, arg |-> arg, answer |-> answer, entry |-> entry]

Line(kind, name) == [kind |-> kind, name |-> name]

\* Faulty variant: a conflict is answered by creating again instead of updating.
CreateLogMetric_RetryCreate(i, metric_config, createAnswer, updateAnswer) ==
    LET create == ApiCall("create", metric_config.name, createAnswer, i)
        again == ApiCall("create", metric_config.name, updateAnswer, i)
    IN  IF ~(RequiredKeys \subseteq metric_config.keys)
        THEN [calls |-> <<>>, lines |-> <<>>, raised |-> "KeyError"]
        ELSE IF createAnswer = "ok"
        THEN [calls |-> <<create>>,
              lines |-> <<Line("created", metric_config.name)>>,
              raised |-> "none"]
        ELSE IF IsAlreadyExists(createAnswer)
        THEN [calls |-> <<create, again>>,
              lines |-> <<Line("already_exists", metric_config.name),
                          IF updateAnswer = "ok"
                          THEN Line("created", metric_config.name)
                          ELSE Line("create_failed", metric_config.name)>>,
              raised |-> "none"]
        ELSE [calls |-> <<create>>,
              lines |-> <<Line("create_failed", metric_config.name)>>,
              raised |-> "none"]

\* Faulty variant: the except block re-raises after the update, so main counts the
\* updated entry as failed.
CreateLogMetric_UpdateThenRaise(i, metric_config, createAnswer, updateAnswer) ==
    LET create == ApiCall("create", metric_config.name, createAnswer, i)
        update == ApiCall("update", metric_config.name, updateAnswer, i)
    IN  IF ~(RequiredKeys \subseteq metric_config.keys)
        THEN [calls |-> <<>>, lines |-> <<>>, raised |-> "KeyError"]
        ELSE IF createAnswer = "ok"
        THEN [calls |-> <<create>>,
              lines |-> <<Line("created", metric_config.name)>>,
              raised |-> "none"]
        ELSE IF IsAlreadyExists(createAnswer)
        THEN [calls |-> <<create, update>>,
              lines |-> <<Line("already_exists", metric_config.name),
                          IF updateAnswer = "ok"
                          THEN Line("updated", metric_config.name)
                          ELSE Line("update_failed", metric_config.name)>>,
              raised |-> "AlreadyExists"]
        ELSE [calls |-> <<create>>,
              lines |-> <<Line("create_failed", metric_config.name)>>,
              raised |-> "none"]

\* create_log_metric for entry number i: the calls issued, the lines printed
\* and the exception raised to main ("none" when it returned).
CreateLogMetric(i, metric_config, createAnswer, updateAnswer) ==
    LET create == ApiCall("create", metric_config.name, createAnswer, i)
        update == ApiCall("update", metric_config.name, updateAnswer, i)
    IN  IF ~(RequiredKeys \subseteq metric_config.keys)
        THEN [calls |-> <<>>, lines |-> <<>>, raised |-> "KeyError"]
        ELSE IF createAnswer = "ok"
        THEN [calls |-> <<create>>,
              lines |-> <<Line("created", metric_config.name)>>,
              raised |-> "none"]
        ELSE IF IsAlreadyExists(createAnswer)
        THEN [calls |-> <<create, update>>,
              lines |-> <<Line("already_exists", metric_config.name),
                          IF updateAnswer = "ok"
                          THEN Line("updated", metric_config.name)
                          ELSE Line("update_failed", metric_config.name)>>,
              raised |-> "none"]
        ELSE [calls |-> <<create>>,
              lines |-> <<Line("create_failed", metric_config.name)>>,
              raised |-> "none"]

\* "Created metrics for monitoring:" (lines 147-149) prints one line per
\* entry; an entry without name or description raises KeyError there.
ListingRaises(metrics_config) ==
    \E i \in 1..Len(metrics_config) :
        ~({"name", "description"} \subseteq metrics_config[i].keys)

\* The lines printed before the first entry that raises.
RECURSIVE ListedBeforeRaise(_)
ListedBeforeRaise(metrics_config) ==
    IF metrics_config = <<>>
       \/ ~({"name", "description"} \subseteq metrics_config[1].keys)
    THEN <<>>
    ELSE <<Line("listed", metrics_config[1].name)>>
             \o ListedBeforeRaise(Tail(metrics_config))

InitLogMetrics ==
    /\ pc = "start"
    /\ results = InitResults
    /\ report = NoReport
    /\ exitStatus = NoExit
    /\ error = "none"
    /\ ran = {}
    /\ billing = "unknown"
    /\ answers = NoAnswers
    /\ calls = <<>>
    /\ catalog = <<>>
    /\ idx = 1
    /\ successful_metrics = 0
    /\ failed_metrics = 0
    /\ counted = <<>>
    /\ output = <<>>
    /\ args = NoArgs
    /\ budgets_created = 0
    /\ dashboard_config = NoDashboard
    /\ metrics_yaml = NoMetrics
    /\ issues = <<>>

\* main, lines 88-109: the argument count, then log-metrics.yaml is loaded.
LoadConfig ==
    /\ pc = "start"
    /\ \E usageOk \in BOOLEAN,
          load \in {"missing", "yaml_error", "empty_document", "ok"},
          metrics_config \in SeqsUpTo(Entries, MaxCatalog) :
          IF ~usageOk THEN Abort("usage") /\ UNCHANGED catalog
          ELSE IF load = "missing" THEN Abort("FileNotFoundError") /\ UNCHANGED catalog
          ELSE IF load = "yaml_error" THEN Abort("YAMLError") /\ UNCHANGED catalog
          ELSE /\ catalog' = (IF load = "ok" THEN metrics_config ELSE <<>>)
               /\ pc' = "client"
               /\ UNCHANGED <<error, exitStatus>>
    /\ UNCHANGED <<validatorVars, budgetVars, dashboardVars,
                   calls, idx, successful_metrics, failed_metrics,
                   counted, output>>

\* main, lines 111-126: the client is built, the counters start at 0.
InitClient ==
    /\ pc = "client"
    /\ \E ok \in BOOLEAN :
          IF ok THEN pc' = "loop" /\ UNCHANGED <<error, exitStatus>>
          ELSE Abort("ClientInit")
    /\ UNCHANGED <<validatorVars, calls, metricsVars,
                   budgetVars, dashboardVars>>

\* One turn of main's loop, lines 128-134.
ProcessMetric ==
    /\ pc = "loop"
    /\ idx <= Len(catalog)
    /\ \E createAnswer \in {"ok"} \cup CreateErrors,
          updateAnswer \in {"ok", "500 Internal error"} :
          LET r == CreateLogMetric(idx, catalog[idx], createAnswer, updateAnswer)
          IN  /\ calls' = calls \o r.calls
              /\ IF r.raised = "none"
                 THEN /\ successful_metrics' = successful_metrics + 1
                      /\ counted' = Append(counted, "successful")
                      /\ output' = output \o r.lines
                      /\ UNCHANGED failed_metrics
                 ELSE /\ failed_metrics' = failed_metrics + 1
                      /\ counted' = Append(counted, "failed")
                      /\ output' = output \o r.lines
                                     \o <<Line("create_failed", catalog[idx].name)>>
                      /\ UNCHANGED successful_metrics
    /\ idx' = idx + 1
    /\ UNCHANGED <<validatorVars, budgetVars, dashboardVars,
                   pc, exitStatus, error, catalog>>

\* main, lines 136-166: the summary and the listing; the script then ends.
Summarize ==
    /\ pc = "loop"
    /\ idx > Len(catalog)
    /\ output' = output \o <<Line("summary_successful", "")>>
                     \o (IF failed_metrics > 0
                         THEN <<Line("summary_failed", "")>> ELSE <<>>)
                     \o ListedBeforeRaise(catalog)
    /\ IF ListingRaises(catalog) THEN Abort("KeyError")
       ELSE /\ exitStatus' = 0
            /\ pc' = "done"
            /\ UNCHANGED error
    /\ UNCHANGED <<validatorVars, budgetVars, dashboardVars,
                   calls, catalog, idx, successful_metrics,
                   failed_metrics, counted>>

\* A KeyboardInterrupt in a provisioning tool.  None of the three scripts
\* handles it (their handlers are `except Exception'), so the interpreter
\* ends the process with a traceback: with status 1, or killed by SIGINT
\* (128 + 2 as the shell reports it), depending on the Python version.
SigintStatus == 128 + 2

InterruptProvisioner ==
    /\ pc # "done"
    /\ error' = "UncaughtKeyboardInterrupt"
    /\ exitStatus' \in {1, SigintStatus}
    /\ pc' = "done"
    /\ UNCHANGED <<validatorVars, calls, metricsVars, budgetVars, dashboardVars>>

NextLogMetrics ==
    \/ LoadConfig
    \/ InitClient
    \/ ProcessMetric
    \/ Summarize
    \/ InterruptProvisioner

SpecLogMetrics == InitLogMetrics /\ [][NextLogMetrics]_vars

(***************************************************************************)
(* create-budget-alerts.py                                                 *)
(***************************************************************************)
DefaultDailyBudget == 50
DefaultMonthlyBudget == 1500

\* Values of --daily-budget and --monthly-budget (type=int) and of --email.
DailyBudgets == {DefaultDailyBudget, 7}
MonthlyBudgets == {DefaultMonthlyBudget, 1501, 1}
Emails == {"none", "ops@example.com"}

Digits == <<"0", "1", "2", "3", "4", "5", "6", "7", "8", "9">>

\* str(n) of an int, as an f-string renders it.
RECURSIVE Decimal(_)
Decimal(n) ==
    IF n < 0 THEN <<"-">> \o Decimal(0 - n)
    ELSE IF n < 10 THEN <<Digits[n + 1]>>
    ELSE Decimal(n \div 10) \o <<Digits[(n % 10) + 1]>>

DailyLabel == <<"D", "a", "i", "l", "y", " ", "B", "u", "d", "g", "e", "t">>
MonthlyLabel == <<"M", "o", "n", "t", "h", "l", "y", " ", "B", "u", "d", "g", "e", "t">>
VertexLabel == <<"V", "e", "r", "t", "e", "x", " ", "A", "I", " ", "B", "u", "d", "g", "e", "t">>

\* f"DressUp AI - {label} (${amount})"
BudgetDisplayName(label, amount) ==
    DressUpAI \o <<" ", "-", " ">> \o label \o <<" ", "(", "$">>
        \o Decimal(amount) \o <<")">>

\* Faulty variant: the Vertex AI amount is rounded up.
VertexAmount_RoundUp(monthly_budget) == (monthly_budget + 1) \div 2

\* args.monthly_budget // 2
VertexAmount(monthly_budget) == monthly_budget \div 2

DefaultServices ==
    <<"services/aiplatform.googleapis.com",
      "services/cloudfunctions.googleapis.com",
      "services/storage.googleapis.com",
      "services/logging.googleapis.com",
      "services/monitoring.googleapis.com">>
VertexServices == <<"services/aiplatform.googleapis.com">>

\* The services argument of create_budget: None or a list.
NoServices == [given |-> FALSE, list |-> <<>>]
Services(list) == [given |-> TRUE, list |-> list]

Rule(percent, basis) == [threshold_percent |-> percent, spend_basis |-> basis]

\* Faulty variant: only the rules up to 90% are set.
ThresholdRules_Three ==
    <<Rule(50, "CURRENT_SPEND"), Rule(75, "CURRENT_SPEND"),
      Rule(90, "CURRENT_SPEND")>>

\* Faulty variant: the over-budget rule is missing.
ThresholdRules_NoOverBudget ==
    <<Rule(50, "CURRENT_SPEND"), Rule(75, "CURRENT_SPEND"),
      Rule(90, "CURRENT_SPEND"), Rule(100, "CURRENT_SPEND")>>

\* threshold_rules of create_budget; threshold_percent is kept in hundredths,
\* 0.5 is 50 and 1.1 is 110.
ThresholdRules ==
    <<Rule(50, "CURRENT_SPEND"), Rule(75, "CURRENT_SPEND"),
      Rule(90, "CURRENT_SPEND"), Rule(100, "CURRENT_SPEND"),
      Rule(110, "CURRENT_SPEND")>>

\* Faulty variant: a disabled billing account is returned like an enabled one.
GetBillingAccountId_IgnoreDisabled(answer) ==
    IF answer = "raises" THEN "Exception" ELSE "none"

\* get_billing_account_id: the exception it raises for what the billing
\* endpoint answered, "none" when it returns the account id.
GetBillingAccountId(answer) ==
    IF answer = "raises" THEN "Exception"
    ELSE IF answer = "disabled" THEN "BillingNotEnabled"
    ELSE "none"

\* create_budget: the create call it issues with the budget it built, and the
\* exception it raises to main ("none" when it returned the created budget).
CreateBudget(billing_account, project_id, budget_amount, display_name, services, answer) ==
    LET budget ==
            [display_name |-> display_name,
             projects |-> <<project_id>>,
             services |-> IF services.given THEN services.list
                          ELSE DefaultServices,
             currency_code |-> "USD",
             units |-> budget_amount,
             threshold_rules |-> ThresholdRules,
             monitoring_notification_channels |-> <<>>,
             disable_default_iam_recipients |-> FALSE]
    IN  [call |-> ApiCall("create_budget", budget, answer, billing_account),
         raised |-> IF answer = "ok" THEN "none" ELSE "Exception"]

InitBudgets ==
    /\ pc = "start"
    /\ results = InitResults
    /\ report = NoReport
    /\ exitStatus = NoExit
    /\ error = "none"
    /\ ran = {}
    /\ billing = "unknown"
    /\ answers = NoAnswers
    /\ calls = <<>>
    /\ catalog = <<>>
    /\ idx = 1
    /\ successful_metrics = 0
    /\ failed_metrics = 0
    /\ counted = <<>>
    /\ output = <<>>
    /\ args = NoArgs
    /\ budgets_created = 0
    /\ dashboard_config = NoDashboard
    /\ metrics_yaml = NoMetrics
    /\ issues = <<>>

\* main, lines 127-152: the command line is parsed, then the billing account
\* of the project is looked up.
GetBillingAccount ==
    /\ pc = "start"
    /\ \E daily \in DailyBudgets, monthly \in MonthlyBudgets, email \in Emails,
          answer \in {"raises", "disabled", "enabled"} :
          /\ args' = [daily_budget |-> daily, monthly_budget |-> monthly,
                      email |-> email]
          /\ billing' = answer
          /\ IF GetBillingAccountId(answer) = "none"
             THEN /\ pc' = "budget_client"
                  /\ output' = output \o <<Line("billing_found", "")>>
                  /\ UNCHANGED <<error, exitStatus>>
             ELSE /\ Abort(GetBillingAccountId(answer))
                  /\ output' = output \o <<Line("billing_failed", ""),
                                           Line("billing_failed", "")>>
    /\ UNCHANGED <<results, report, ran, answers, calls, catalog, idx,
                   successful_metrics,
                   failed_metrics, counted, budgets_created, dashboardVars>>

\* main, lines 154-165: the budgets client is built, the counter starts at 0.
InitBudgetClient ==
    /\ pc = "budget_client"
    /\ \E ok \in BOOLEAN :
          IF ok THEN pc' = "daily" /\ UNCHANGED <<error, exitStatus>>
          ELSE Abort("ClientInit")
    /\ UNCHANGED <<validatorVars, calls, metricsVars, budgetVars, dashboardVars>>

\* Faulty variant: a failed submission ends the creation of budgets.
SubmitBudget_StopOnFailure(kind, next, budget_amount, display_name, services) ==
    \E answer \in {"ok", "403 Permission denied"} :
        LET r == CreateBudget("billing-account", "project", budget_amount,
                              display_name, services, answer)
        IN  /\ calls' = Append(calls, r.call)
            /\ IF r.raised = "none"
               THEN /\ budgets_created' = budgets_created + 1
                    /\ output' = Append(output, Line("budget_created", kind))
                    /\ pc' = next
               ELSE /\ output' = output \o <<Line("budget_create_failed", kind),
                                             Line("budget_failed", kind)>>
                    /\ pc' = "budget_summary"
                    /\ UNCHANGED budgets_created

\* Faulty variant: a failed submission is attempted a second time.
SubmitBudget_Retry(kind, next, budget_amount, display_name, services) ==
    \E answer \in {"ok", "403 Permission denied"} :
        LET r == CreateBudget("billing-account", "project", budget_amount,
                              display_name, services, answer)
        IN  /\ calls' = (IF r.raised = "none" THEN Append(calls, r.call)
                         ELSE calls \o <<r.call, r.call>>)
            /\ IF r.raised = "none"
               THEN /\ budgets_created' = budgets_created + 1
                    /\ output' = Append(output, Line("budget_created", kind))
               ELSE /\ output' = output \o <<Line("budget_create_failed", kind),
                                             Line("budget_failed", kind)>>
                    /\ UNCHANGED budgets_created
            /\ pc' = next

\* One of main's three try blocks: create_budget is called, the counter is
\* incremented when it returns, a failure is printed and main goes on.
SubmitBudget(kind, next, budget_amount, display_name, services) ==
    \E answer \in {"ok", "403 Permission denied"} :
        LET r == CreateBudget("billing-account", "project", budget_amount,
                              display_name, services, answer)
        IN  /\ calls' = Append(calls, r.call)
            /\ IF r.raised = "none"
               THEN /\ budgets_created' = budgets_created + 1
                    /\ output' = Append(output, Line("budget_created", kind))
               ELSE /\ output' = output \o <<Line("budget_create_failed", kind),
                                             Line("budget_failed", kind)>>
                    /\ UNCHANGED budgets_created
            /\ pc' = next

\* main, lines 167-180
CreateDailyBudget ==
    /\ pc = "daily"
    /\ SubmitBudget("daily", "monthly", args.daily_budget,
                    BudgetDisplayName(DailyLabel, args.daily_budget), NoServices)
    /\ UNCHANGED <<validatorVars, exitStatus, error, catalog, idx,
                   successful_metrics, failed_metrics, counted, args,
                   dashboardVars>>

\* main, lines 182-195
CreateMonthlyBudget ==
    /\ pc = "monthly"
    /\ SubmitBudget("monthly", "vertex", args.monthly_budget,
                    BudgetDisplayName(MonthlyLabel, args.monthly_budget),
                    NoServices)
    /\ UNCHANGED <<validatorVars, exitStatus, error, catalog, idx,
                   successful_metrics, failed_metrics, counted, args,
                   dashboardVars>>

\* main, lines 197-211
CreateVertexBudget ==
    /\ pc = "vertex"
    /\ SubmitBudget("vertex", "budget_summary",
                    VertexAmount(args.monthly_budget),
                    BudgetDisplayName(VertexLabel,
                                      VertexAmount(args.monthly_budget)),
                    Services(VertexServices))
    /\ UNCHANGED <<validatorVars, exitStatus, error, catalog, idx,
                   successful_metrics, failed_metrics, counted, args,
                   dashboardVars>>

\* main, lines 213-255: the summary with the counter (one digit, at most three
\* budgets are created); the script then ends.
BudgetSummary ==
    /\ pc = "budget_summary"
    /\ output' = output \o <<Line("budgets_created", Digits[budgets_created + 1])>>
                     \o (IF budgets_created > 0
                         THEN <<Line("budget_configuration", "")>> ELSE <<>>)
                     \o (IF args.email # "none"
                         THEN <<Line("email_setup", args.email)>> ELSE <<>>)
    /\ exitStatus' = 0
    /\ pc' = "done"
    /\ UNCHANGED <<validatorVars, error, calls, catalog, idx, successful_metrics,
                   failed_metrics, counted, budgetVars, dashboardVars>>

NextBudgets ==
    \/ GetBillingAccount
    \/ InitBudgetClient
    \/ CreateDailyBudget
    \/ CreateMonthlyBudget
    \/ CreateVertexBudget
    \/ BudgetSummary
    \/ InterruptProvisioner

SpecBudgets == InitBudgets /\ [][NextBudgets]_vars

(***************************************************************************)
(* create-dashboard.py                                                     *)
(***************************************************************************)
MetricTypeEq ==
    <<"m", "e", "t", "r", "i", "c", ".", "t", "y", "p", "e", "=">>
UserPrefix ==
    <<"l", "o", "g", "g", "i", "n", "g", ".", "g", "o", "o", "g", "l", "e",
      "a", "p", "i", "s", ".", "c", "o", "m", "/", "u", "s", "e", "r", "/">>
Quote == <<"\"">>
Space == <<" ">>
ResourceClause ==
    <<"r", "e", "s", "o", "u", "r", "c", "e", ".", "t", "y", "p", "e", "=",
      "\"", "c", "l", "o", "u", "d", "_", "f", "u", "n", "c", "t", "i",
      "o", "n", "\"">>

\* The names of user metrics, with their characters.
MetricChars(n) ==
    CASE n = "errors" -> <<"e", "r", "r", "o", "r", "s">>
      [] n = "latency" -> <<"l", "a", "t", "e", "n", "c", "y">>
      [] OTHER -> <<"u", "n", "n", "a", "m", "e", "d">>

\* metric.type="logging.googleapis.com/user/<name>"
Convention(n) == MetricTypeEq \o Quote \o UserPrefix \o MetricChars(n) \o Quote

\* The filter strings of the modelled layouts: which user metric each one
\* names, whether that reference ends the filter or is followed by a space,
\* and its text.
FilterIds == {"errors", "errors_by_resource", "latency", "cpu",
              "errors_grouped", "absent"}

FilterNames(f) ==
    CASE f \in {"errors", "errors_by_resource", "errors_grouped"} -> {"errors"}
      [] f = "latency" -> {"latency"}
      [] OTHER -> {}

SpaceSeparated(f) == f # "errors_grouped"

FilterText(f) ==
    CASE f = "errors" -> Convention("errors")
      [] f = "errors_by_resource" ->
            Convention("errors") \o Space \o ResourceClause
      [] f = "latency" ->
            ResourceClause \o <<" ", "A", "N", "D", " ">> \o Convention("latency")
      [] f = "cpu" ->
            MetricTypeEq \o Quote
                \o <<"c", "o", "m", "p", "u", "t", "e", ".", "g", "o", "o", "g",
                     "l", "e", "a", "p", "i", "s", ".", "c", "o", "m", "/", "c",
                     "p", "u">> \o Quote
      [] f = "errors_grouped" -> <<"(">> \o Convention("errors") \o <<")">>
      [] OTHER -> <<>>

StartsWith(prefix, s) ==
    /\ Len(s) >= Len(prefix)
    /\ SubSeq(s, 1, Len(prefix)) = prefix

\* The text before the first occurrence of sep, all of s without one.
RECURSIVE Before(_, _)
Before(sep, s) ==
    IF s = <<>> \/ StartsWith(sep, s) THEN <<>>
    ELSE <<Head(s)>> \o Before(sep, Tail(s))

\* The text after the first occurrence of sep.
RECURSIVE After(_, _)
After(sep, s) ==
    IF s = <<>> THEN <<>>
    ELSE IF StartsWith(sep, s) THEN SubSeq(s, Len(sep) + 1, Len(s))
    ELSE After(sep, Tail(s))

\* s.split(sep)[0] and s.split(sep)[1], the latter for s holding sep.
SplitFirst(sep, s) == Before(sep, s)
SplitSecond(sep, s) == Before(sep, After(sep, s))

\* s.strip(c)
RECURSIVE Strip(_, _)
Strip(c, s) ==
    IF s = <<>> THEN <<>>
    ELSE IF Head(s) = c THEN Strip(c, Tail(s))
    ELSE IF s[Len(s)] = c THEN Strip(c, SubSeq(s, 1, Len(s) - 1))
    ELSE s

\* s.replace(old, '')
RECURSIVE Remove(_, _)
Remove(old, s) ==
    IF s = <<>> THEN <<>>
    ELSE IF StartsWith(old, s) THEN Remove(old, SubSeq(s, Len(old) + 1, Len(s)))
    ELSE <<Head(s)>> \o Remove(old, Tail(s))

\* Lines 65-69 and 77-81: the metric names a filter string adds to
\* referenced_metrics, none or one.
MetricReference(filter_str) ==
    IF Contains(MetricTypeEq, filter_str)
    THEN LET metric_part ==
                 Strip("\"", SplitFirst(Space, SplitSecond(MetricTypeEq, filter_str)))
         IN  IF StartsWith(UserPrefix, metric_part)
             THEN <<Remove(UserPrefix, metric_part)>>
             ELSE <<>>
    ELSE <<>>

\* A widget: the filters of its chart data sets and of its scorecard, each
\* empty when the widget has no such part.
Widget(data_sets, scorecard) == [xyChart |-> data_sets, scorecard |-> scorecard]

Widgets ==
    {Widget(<<f>>, <<>>) : f \in FilterIds \ {"absent"}}
    \cup {Widget(<<>>, <<>>), Widget(<<"errors", "latency">>, <<>>)}
    \cup {Widget(<<>>, <<f>>) : f \in {"errors", "absent"}}

LayoutKeys == {"displayName", "mosaicLayout"}

\* The documents dashboard-config.json may hold: complete ones with up to
\* MaxTiles tiles, and ones that lack a key.
Layouts ==
    {[file |-> "loaded", keys |-> LayoutKeys, tiles |-> t] :
        t \in SeqsUpTo(Widgets, MaxTiles)}
    \cup {[file |-> "loaded", keys |-> {"mosaicLayout"},
           tiles |-> <<Widget(<<"errors">>, <<>>)>>],
          [file |-> "loaded", keys |-> {"displayName"}, tiles |-> <<>>]}

\* The documents log-metrics.yaml may hold for the dashboard tool.
MetricEntry(n) == [name |-> n, keys |-> {"name"}]

Catalogs ==
    {<<>>, <<MetricEntry("errors")>>, <<MetricEntry("latency")>>,
     <<MetricEntry("errors"), MetricEntry("latency")>>,
     <<MetricEntry("errors"), [name |-> "unnamed", keys |-> {}]>>}

RECURSIVE Flatten(_)
Flatten(ss) == IF ss = <<>> THEN <<>> ELSE Head(ss) \o Flatten(Tail(ss))

Range(s) == {s[i] : i \in 1..Len(s)}

\* The lists that hold every element of S once: a set is iterated in an
\* order the program does not fix.
Orderings(S) ==
    {s \in [1..Cardinality(S) -> S] : Range(s) = S}

\* Lines 50-81: the names added to referenced_metrics, in the order of the
\* walk over tiles, data sets and scorecards.
ExtractedNames(config) ==
    LET ofTile(w) ==
            Flatten([k \in 1..Len(w.xyChart) |->
                        MetricReference(FilterText(w.xyChart[k]))])
            \o Flatten([k \in 1..Len(w.scorecard) |->
                           MetricReference(FilterText(w.scorecard[k]))])
    IN  Flatten([i \in 1..Len(config.tiles) |-> ofTile(config.tiles[i])])

\* Faulty variant: referenced_metrics is a list, a repeated name is reported
\* once per reference.
ValidateMetricsReferences_List(config, metrics) ==
    IF \E i \in 1..Len(metrics) : "name" \notin metrics[i].keys
    THEN [issues |-> {<<>>}, raised |-> "KeyError"]
    ELSE LET defined_metrics ==
                 {MetricChars(metrics[i].name) : i \in 1..Len(metrics)}
         IN  [issues |-> {SelectSeq(ExtractedNames(config),
                                    LAMBDA m : m \notin defined_metrics)},
              raised |-> "none"]

\* validate_metrics_references: the lists it may return, one issue per
\* element, and the exception it raises ("none" when it returns).
ValidateMetricsReferences(config, metrics) ==
    IF \E i \in 1..Len(metrics) : "name" \notin metrics[i].keys
    THEN [issues |-> {<<>>}, raised |-> "KeyError"]
    ELSE LET referenced_metrics == Range(ExtractedNames(config))
             defined_metrics ==
                 {MetricChars(metrics[i].name) : i \in 1..Len(metrics)}
         IN  [issues |-> Orderings(referenced_metrics \ defined_metrics),
              raised |-> "none"]

\* Faulty variant: only a missing file is fatal.
DashboardLoadRaises_MissingOnly(file) ==
    IF file = "missing" THEN "FileNotFoundError" ELSE "none"

\* main, lines 110-118: what loading dashboard-config.json makes main exit on.
DashboardLoadRaises(file) ==
    CASE file = "missing" -> "FileNotFoundError"
      [] file = "invalid_json" -> "JSONDecodeError"
      [] OTHER -> "none"

\* Faulty variant: a failed creation is attempted a second time.
CreateDashboard_Retry(config, answer) ==
    IF ~(LayoutKeys \subseteq config.keys)
    THEN [calls |-> <<>>, raised |-> "KeyError"]
    ELSE IF answer = "ok"
    THEN [calls |-> <<ApiCall("create_dashboard", "dashboard", answer, 1)>>,
          raised |-> "none"]
    ELSE [calls |-> <<ApiCall("create_dashboard", "dashboard", answer, 1),
                      ApiCall("create_dashboard", "dashboard", answer, 1)>>,
          raised |-> "Exception"]

\* create_dashboard: the create call it issues, none when the layout lacks
\* displayName or mosaicLayout, and the exception it raises to main.
CreateDashboard(config, answer) ==
    IF ~(LayoutKeys \subseteq config.keys)
    THEN [calls |-> <<>>, raised |-> "KeyError"]
    ELSE [calls |-> <<ApiCall("create_dashboard", "dashboard", answer, 1)>>,
          raised |-> IF answer = "ok" THEN "none" ELSE "Exception"]

InitDashboard ==
    /\ pc = "start"
    /\ results = InitResults
    /\ report = NoReport
    /\ exitStatus = NoExit
    /\ error = "none"
    /\ ran = {}
    /\ billing = "unknown"
    /\ answers = NoAnswers
    /\ calls = <<>>
    /\ catalog = <<>>
    /\ idx = 1
    /\ successful_metrics = 0
    /\ failed_metrics = 0
    /\ counted = <<>>
    /\ output = <<>>
    /\ args = NoArgs
    /\ budgets_created = 0
    /\ dashboard_config = NoDashboard
    /\ metrics_yaml = NoMetrics
    /\ issues = <<>>

\* main, lines 95-129: the argument count, then dashboard-config.json and
\* log-metrics.yaml are loaded.
LoadDashboardConfigs ==
    /\ pc = "start"
    /\ \E usageOk \in BOOLEAN,
          file \in {"missing", "invalid_json", "loaded"},
          layout \in Layouts,
          metricsFile \in {"missing", "yaml_error", "empty_document", "loaded"},
          metrics \in Catalogs :
          IF ~usageOk
          THEN /\ Abort("usage")
               /\ UNCHANGED <<dashboard_config, metrics_yaml, output>>
          ELSE IF DashboardLoadRaises(file) # "none"
          THEN /\ Abort(DashboardLoadRaises(file))
               /\ dashboard_config' = [NoDashboard EXCEPT !.file = file]
               /\ output' = Append(output, Line("dashboard_load_failed", file))
               /\ UNCHANGED metrics_yaml
          ELSE /\ dashboard_config' = [layout EXCEPT !.file = file]
               /\ metrics_yaml' =
                     [file |-> metricsFile,
                      metrics |-> IF metricsFile = "loaded" THEN metrics ELSE <<>>]
               /\ IF metricsFile = "yaml_error"
                  THEN /\ Abort("YAMLError")
                       /\ output' = Append(output, Line("metrics_load_failed", ""))
                  ELSE /\ pc' = "validate"
                       /\ output' =
                             (IF metricsFile = "missing"
                              THEN Append(output, Line("validation_skipped", ""))
                              ELSE output)
                       /\ UNCHANGED <<error, exitStatus>>
    /\ UNCHANGED <<validatorVars, calls, catalog, idx, successful_metrics,
                   failed_metrics, counted, budgetVars, issues>>

\* main, lines 131-144: the references are validated when the catalog holds
\* metrics; issues are printed as warnings.
ValidateReferences ==
    /\ pc = "validate"
    /\ IF metrics_yaml.file = "empty_document"
       THEN Abort("AttributeError") /\ UNCHANGED <<ran, issues, output>>
       ELSE IF metrics_yaml.metrics = <<>>
       THEN /\ pc' = "dashboard_client"
            /\ UNCHANGED <<error, exitStatus, ran, issues, output>>
       ELSE LET r == ValidateMetricsReferences(dashboard_config,
                                               metrics_yaml.metrics)
            IN  /\ ran' = ran \cup {"validate"}
                /\ IF r.raised # "none"
                   THEN Abort(r.raised) /\ UNCHANGED <<issues, output>>
                   ELSE /\ \E returned \in r.issues : issues' = returned
                        /\ output' =
                              output \o [i \in 1..Len(issues') |-> Line("issue", "")]
                                  \o (IF issues' = <<>>
                                      THEN <<Line("references_validated", "")>>
                                      ELSE <<>>)
                        /\ pc' = "dashboard_client"
                        /\ UNCHANGED <<error, exitStatus>>
    /\ UNCHANGED <<results, report, billing, answers, calls, catalog, idx,
                   successful_metrics, failed_metrics, counted, budgetVars,
                   dashboard_config, metrics_yaml>>

\* main, lines 146-152: the dashboards client is built.
InitDashboardClient ==
    /\ pc = "dashboard_client"
    /\ \E ok \in BOOLEAN :
          IF ok
          THEN /\ pc' = "create_dashboard"
               /\ ran' = ran \cup {"client"}
               /\ UNCHANGED <<error, exitStatus>>
          ELSE Abort("ClientInit") /\ UNCHANGED ran
    /\ UNCHANGED <<results, report, billing, answers, calls, metricsVars,
                   budgetVars,
                   dashboardVars>>

\* main, lines 154-205: create_dashboard is called once; the details are
\* printed and the script ends, or the failure is printed and it exits.
SubmitDashboard ==
    /\ pc = "create_dashboard"
    /\ \E answer \in {"ok", "403 Permission denied"} :
          LET r == CreateDashboard(dashboard_config, answer)
          IN  /\ calls' = calls \o r.calls
              /\ IF r.raised = "none"
                 THEN /\ output' = Append(output, Line("dashboard_created", ""))
                      /\ exitStatus' = 0
                      /\ pc' = "done"
                      /\ UNCHANGED error
                 ELSE /\ output' = Append(output, Line("dashboard_failed", ""))
                      /\ Abort(r.raised)
    /\ UNCHANGED <<validatorVars, catalog, idx, successful_metrics,
                   failed_metrics, counted, budgetVars, dashboardVars>>

NextDashboard ==
    \/ LoadDashboardConfigs
    \/ ValidateReferences
    \/ InitDashboardClient
    \/ SubmitDashboard
    \/ InterruptProvisioner

SpecDashboard == InitDashboard /\ [][NextDashboard]_vars

(***************************************************************************)
(* A run of create-budget-alerts.py followed by test_budget_alerts of a    *)
(* new MonitoringValidator, with the billing account enabled and           *)
(* list_budgets answering the budgets that run created.                    *)
(***************************************************************************)
CreatedBudgets ==
    SelectSeq(calls, LAMBDA c : c.op = "create_budget" /\ c.answer = "ok")

\* The display name of a created budget as the listing returns it.
DisplayNameOf(display_name) ==
    CHOOSE n \in ProvisionedNames : NameChars(n) = display_name

\* A created budget as list_budgets returns it to the validator.
ListedBudget(budget) ==
    [display_name |-> DisplayNameOf(budget.display_name),
     threshold_rules |-> Len(budget.threshold_rules)]

ValidateCreatedBudgets ==
    /\ pc = "done"
    /\ error \in {"none", "UncaughtKeyboardInterrupt"}
    /\ billing = "enabled"
    /\ LET budget_list ==
               [i \in 1..Len(CreatedBudgets) |-> ListedBudget(CreatedBudgets[i].arg)]
           o == BudgetAlerts(InitResults, "enabled", FALSE, budget_list)
       IN  /\ results' = o.res
           /\ report' = GenerateValidationReport(o.res)
           /\ answers' = [step |-> "budgets", billing |-> "enabled",
                          listRaises |-> FALSE, budget_list |-> budget_list]
    /\ ran' = ran \cup {"budgets"}
    /\ pc' = "validated"
    /\ UNCHANGED <<exitStatus, error, billing, calls, metricsVars, budgetVars,
                   dashboardVars>>

NextProvisionThenValidate ==
    \/ NextBudgets
    \/ ValidateCreatedBudgets

SpecProvisionThenValidate == InitBudgets /\ [][NextProvisionThenValidate]_vars

(***************************************************************************)
(* A run of any one of the three provisioning tools: the first step taken  *)
(* is the first step of the tool that runs.                                *)
(***************************************************************************)
NextProvisioners ==
    \/ NextLogMetrics
    \/ NextBudgets
    \/ NextDashboard

SpecProvisioners == InitLogMetrics /\ [][NextProvisioners]_vars

(***************************************************************************)
(* Properties of the validation aggregator                                 *)
(***************************************************************************)
\* The run ended, was not interrupted, and its clients were initialised.
Completed == pc = "done" /\ error \notin {"KeyboardInterrupt", "ClientInit"}

SumOver(res, field) ==
    SumSeq([i \in 1..Len(Categories) |-> res[Categories[i]][field]])

RecordedTests(res) ==
    SumSeq([i \in 1..Len(Categories) |-> Len(res[Categories[i]].tests)])

AllTestsPassed(res) == \A c \in CategorySet : res[c].failed = 0

\* C1: a run that is not interrupted, whose clients initialise and that has
\* entered every step of run_validation exits with 0 iff the overall status
\* the report gives for the recorded results is PASS, with 1 iff it is FAIL;
\* a run whose individual tests all pass exits with 0.
C1_ExitReflectsOverallStatus ==
    (Completed /\ Steps \subseteq ran) =>
        /\ exitStatus = 0
              <=> GenerateValidationReport(results).overall_status = "PASS"
        /\ exitStatus = 1
              <=> GenerateValidationReport(results).overall_status = "FAIL"
        /\ AllTestsPassed(results) => exitStatus = 0

\* C2: once test_end_to_end_flow has run, the completeness test is counted
\* in the overall counters, as passed iff at least 3 of the four categories
\* have passed > 0.
C2_CompletenessRecorded ==
    "e2e" \in ran =>
        /\ results["overall"].passed + results["overall"].failed
              = SumOver(results, "passed") + SumOver(results, "failed") + 1
        /\ results["overall"].passed = SumOver(results, "passed") + 1
              <=> Len(WorkingComponents(results)) >= 3

\* C3: whatever fails inside a test group (the configuration file aside),
\* a run that is not interrupted enters every step of run_validation.
C3_NoEarlyStop ==
    (Completed /\ error # "ConfigError") => Steps \subseteq ran

\* C4: in a generated report a category with 0 tests, and the overall
\* result with 0 tests, has success rate 0.0% and status FAIL.
C4_ZeroTestsFail ==
    report.generated =>
        /\ \A c \in CategorySet :
              report.categories[c].passed + report.categories[c].failed = 0
                 => /\ report.categories[c].status = "FAIL"
                    /\ report.categories[c].success_rate = 0
        /\ report.total_tests = 0
              => report.overall_status = "FAIL" /\ report.success_rate = 0

C4_Witness ==
    /\ report.generated
    /\ report.total_tests = 0
    /\ report.categories["budgets"].passed + report.categories["budgets"].failed = 0

\* C5: in a generated report a category with passed + failed > 0 is PASS iff
\* 4 * passed >= 3 * (passed + failed) and FAIL otherwise; the overall status
\* follows the same rule on the overall counters, which count every test
\* recorded in the four categories.
C5_ThreeQuarterRule ==
    report.generated =>
        /\ \A c \in CategorySet :
              LET passed == report.categories[c].passed
                  failed == report.categories[c].failed
              IN  passed + failed > 0 =>
                     /\ report.categories[c].status \in {"PASS", "FAIL"}
                     /\ report.categories[c].status = "PASS"
                           <=> 4 * passed >= 3 * (passed + failed)
        /\ report.total_tests > 0 =>
              /\ report.overall_status \in {"PASS", "FAIL"}
              /\ report.overall_status = "PASS"
                    <=> 4 * report.passed_tests >= 3 * report.total_tests
        /\ report.total_tests = report.passed_tests + report.failed_tests
        /\ report.total_tests = RecordedTests(results)
        /\ report.passed_tests = SumOver(results, "passed")
        /\ report.failed_tests = SumOver(results, "failed")

\* A category exactly at the threshold: 3 passed of 4.
C5_Witness ==
    /\ report.generated
    /\ report.categories["dashboard"].passed = 3
    /\ report.categories["dashboard"].failed = 1
    /\ report.categories["dashboard"].status = "PASS"

\* C6: when billing is disabled the budgets group records exactly one test,
\* 'Billing enabled' with passed = false, issues no list_budgets call, and
\* the run goes on to test_end_to_end_flow.
C6_BillingDisabled ==
    billing = "disabled" =>
        /\ Len(results["budgets"].tests) = 1
        /\ results["budgets"].tests[1].name = "Billing enabled"
        /\ results["budgets"].tests[1].passed = FALSE
        /\ results["budgets"].passed = 0
        /\ results["budgets"].failed = 1
        /\ \A j \in 1..Len(calls) : calls[j].op # "list_budgets"
        /\ pc = "e2e" \/ "e2e" \in ran \/ error = "KeyboardInterrupt"

C6_Witness ==
    /\ billing = "disabled"
    /\ pc = "e2e"
    /\ results["budgets"].failed = 1

(***************************************************************************)
(* Properties of the log-metric provisioner                                *)
(***************************************************************************)
\* The error texts of CreateErrors that contain 'already exists' in some
\* letter case.
ConflictTexts == {"409 Metric already exists", "Already Exists"}

CallsOf(op, i) == {j \in 1..Len(calls) : calls[j].op = op /\ calls[j].entry = i}

Created(i) == \E j \in CallsOf("create", i) : calls[j].answer = "ok"
Conflicted(i) == \E j \in CallsOf("create", i) : calls[j].answer \in ConflictTexts
CreateRefused(i) ==
    \E j \in CallsOf("create", i) : calls[j].answer \notin ConflictTexts \cup {"ok"}
Updated(i) == \E j \in CallsOf("update", i) : calls[j].answer = "ok"
UpdateRefused(i) == \E j \in CallsOf("update", i) : calls[j].answer # "ok"

Processed == 1..Len(counted)

CountOf(kind) == Cardinality({i \in Processed : counted[i] = kind})

\* C7: an entry whose create call fails with a text containing 'already
\* exists' gets exactly one update call, for its own name and directly after
\* the create call, and when the update succeeds the entry is not counted
\* as failed.
C7_ConflictIsUpdatedOnce ==
    /\ failed_metrics = CountOf("failed")
    /\ \A j \in 1..Len(calls) :
          (calls[j].op = "create" /\ calls[j].answer \in ConflictTexts) =>
              /\ Cardinality(CallsOf("update", calls[j].entry)) = 1
              /\ j < Len(calls)
              /\ calls[j + 1].op = "update"
              /\ calls[j + 1].entry = calls[j].entry
              /\ calls[j + 1].arg = catalog[calls[j].entry].name
              /\ calls[j + 1].answer = "ok" => counted[calls[j].entry] = "successful"

C7_Witness ==
    \E j \in 1..Len(calls) :
        /\ calls[j].op = "create"
        /\ calls[j].answer = "Already Exists"
        /\ j < Len(calls)
        /\ calls[j + 1].answer = "ok"
        /\ failed_metrics = 0

\* C8: at the end of a run whose entries all reached a create call, the
\* failed count is the number of entries whose create call failed otherwise
\* than by 'already exists' plus those whose update call failed, and the
\* successful count is the number of entries created or updated.
C8_FailedCountsFailures ==
    (pc = "done" /\ error = "none"
       /\ \A i \in 1..Len(catalog) : CallsOf("create", i) # {}) =>
        /\ failed_metrics
              = Cardinality({i \in 1..Len(catalog) : CreateRefused(i) \/ UpdateRefused(i)})
        /\ successful_metrics
              = Cardinality({i \in 1..Len(catalog) : Created(i) \/ Updated(i)})

CreateCalls == SelectSeq(calls, LAMBDA c : c.op = "create")

LoopFinished == pc = "loop" /\ idx > Len(catalog)

Complete(i) == RequiredKeys \subseteq catalog[i].keys

\* The number of entries before entry i that hold all required keys.
CompleteBefore(i) == Cardinality({h \in 1..(i - 1) : Complete(h)})

Lines(kind) == SelectSeq(output, LAMBDA l : l.kind = kind)

AllCreatedOrUpdated ==
    \A i \in 1..Len(catalog) : Created(i) \/ (Conflicted(i) /\ Updated(i))

\* C10: when every entry is created, or conflicts and is then updated, the
\* run prints one 'Created' line per created entry and one 'Updated' line
\* per conflicting entry, counts every entry as successful and none as
\* failed, prints no failure line, and lists every entry's name, in catalog
\* order, in the final listing.
C10_CreatedAndUpdatedReport ==
    (pc = "done" /\ error = "none" /\ AllCreatedOrUpdated) =>
        /\ Len(Lines("created")) = Cardinality({i \in 1..Len(catalog) : Created(i)})
        /\ Len(Lines("updated")) = Cardinality({i \in 1..Len(catalog) : Conflicted(i)})
        /\ successful_metrics = Len(catalog)
        /\ failed_metrics = 0
        /\ Lines("summary_failed") = <<>>
        /\ Lines("create_failed") = <<>>
        /\ Lines("update_failed") = <<>>
        /\ Lines("listed") = [i \in 1..Len(catalog) |-> Line("listed", catalog[i].name)]
        /\ exitStatus = 0

\* Entry metric_a is created, entry metric_b exists and is updated.
C10_Witness ==
    /\ pc = "done"
    /\ error = "none"
    /\ Len(catalog) = 2
    /\ catalog[1].name = "metric_a"
    /\ catalog[2].name = "metric_b"
    /\ Created(1)
    /\ Conflicted(2)
    /\ Updated(2)
    /\ successful_metrics = 2
    /\ failed_metrics = 0

(***************************************************************************)
(* Properties of the budget provisioner                                    *)
(***************************************************************************)
BudgetCalls == SelectSeq(calls, LAMBDA c : c.op = "create_budget")

\* The try blocks of main that have been left, by position.
Submitted ==
    CASE pc = "daily" -> 0
      [] pc = "monthly" -> 1
      [] pc = "vertex" -> 2
      [] OTHER -> 3

\* The billing account was resolved, the client was built and the run was
\* not interrupted.
Submitting ==
    \/ pc \in {"daily", "monthly", "vertex", "budget_summary"}
    \/ pc = "done" /\ exitStatus = 0

\* The display names of the three budgets, in the order of main.
ExpectedNames ==
    <<BudgetDisplayName(DailyLabel, args.daily_budget),
      BudgetDisplayName(MonthlyLabel, args.monthly_budget),
      BudgetDisplayName(VertexLabel, args.monthly_budget \div 2)>>

\* C11: once the billing account is resolved and the client is built, the
\* daily, the monthly and the Vertex AI budget are each submitted exactly
\* once, in that order, whatever the earlier submissions answered; the count
\* reported is the number of submissions that succeeded, and no call other
\* than a creation (no deletion, no rollback) is ever issued.
C11_EachBudgetSubmittedOnce ==
    Submitting =>
        /\ Len(BudgetCalls) = Submitted
        /\ \A i \in 1..Submitted :
               BudgetCalls[i].arg.display_name = ExpectedNames[i]
        /\ budgets_created
              = Cardinality({i \in 1..Submitted : BudgetCalls[i].answer = "ok"})
        /\ budgets_created \in 0..3
        /\ \A i \in 1..Len(calls) : calls[i].op = "create_budget"
        /\ pc = "done" =>
              \E i \in 1..Len(output) :
                  output[i] = Line("budgets_created", Digits[budgets_created + 1])

C11_Witness ==
    /\ pc = "done"
    /\ exitStatus = 0
    /\ Len(BudgetCalls) = 3
    /\ BudgetCalls[1].answer # "ok"
    /\ BudgetCalls[2].answer = "ok"
    /\ BudgetCalls[3].answer # "ok"
    /\ budgets_created = 1

\* C12: every budget submitted carries exactly five threshold rules, at 0.5,
\* 0.75, 0.9, 1.0 and 1.1 of the amount in that order (50, 75, 90, 100 and
\* 110 hundredths), each on current spend, whatever its amount and services.
C12_FiveThresholdRules ==
    \A i \in 1..Len(BudgetCalls) :
        LET rules == BudgetCalls[i].arg.threshold_rules
        IN  /\ Len(rules) = 5
            /\ [k \in 1..5 |-> rules[k].threshold_percent]
                  = <<50, 75, 90, 100, 110>>
            /\ \A k \in 1..5 : rules[k].spend_basis = "CURRENT_SPEND"

C12_Witness ==
    /\ Len(BudgetCalls) = 3
    /\ BudgetCalls[1].arg.units # BudgetCalls[2].arg.units
    /\ BudgetCalls[2].arg.services # BudgetCalls[3].arg.services
    /\ Len(BudgetCalls[3].arg.threshold_rules) = 5

\* C13: when the project has no active billing account, or the lookup of the
\* billing account fails, the failure is printed, the tool exits with status
\* 1 and no budget creation call is issued.
C13_NoBillingNoBudgets ==
    billing \in {"raises", "disabled"} =>
        /\ pc = "done"
        /\ exitStatus = 1
        /\ calls = <<>>
        /\ budgets_created = 0
        /\ \E i \in 1..Len(output) : output[i] = Line("billing_failed", "")

C13_Witness ==
    /\ billing = "disabled"
    /\ pc = "done"
    /\ error = "BillingNotEnabled"

\* C14: the daily budget is submitted with the daily amount and the default
\* list of five services, the monthly budget with the monthly amount and the
\* same list, and the Vertex AI budget with half the monthly amount, rounded
\* down to whole units, for the Vertex AI service only.
C14_AmountsAndScopes ==
    Submitting /\ Submitted = 3 =>
        /\ BudgetCalls[1].arg.units = args.daily_budget
        /\ BudgetCalls[1].arg.services = DefaultServices
        /\ BudgetCalls[2].arg.units = args.monthly_budget
        /\ BudgetCalls[2].arg.services = DefaultServices
        /\ 2 * BudgetCalls[3].arg.units \in
              {args.monthly_budget - 1, args.monthly_budget}
        /\ BudgetCalls[3].arg.services = <<"services/aiplatform.googleapis.com">>
        /\ Len(DefaultServices) = 5
        /\ \A i \in 1..3 : BudgetCalls[i].arg.currency_code = "USD"

C14_Witness ==
    /\ Submitting
    /\ Submitted = 3
    /\ args.monthly_budget = 1501
    /\ BudgetCalls[3].arg.units = 750
    /\ args.daily_budget = 7

(***************************************************************************)
(* Properties of the dashboard provisioner                                 *)
(***************************************************************************)
\* The user metrics the filters of the layout name by the convention
\* metric.type="logging.googleapis.com/user/<name>".
ConventionNames(config) ==
    UNION {UNION {FilterNames(f) :
                     f \in Range(config.tiles[i].xyChart)
                           \cup Range(config.tiles[i].scorecard)} :
           i \in 1..Len(config.tiles)}

LayoutFilters(config) ==
    UNION {Range(config.tiles[i].xyChart) \cup Range(config.tiles[i].scorecard) :
           i \in 1..Len(config.tiles)}

DefinedNames == {metrics_yaml.metrics[i].name : i \in 1..Len(metrics_yaml.metrics)}

UndefinedNames == ConventionNames(dashboard_config) \ DefinedNames

\* validate_metrics_references was called, and it returned.
ValidationCalled == "validate" \in ran
ValidationReturned ==
    /\ ValidationCalled
    /\ ~(pc = "done" /\ error = "KeyError" /\ "client" \notin ran)

DashboardCalls == SelectSeq(calls, LAMBDA c : c.op = "create_dashboard")

\* C16: when dashboard-config.json is missing or is not valid JSON, the
\* error is printed and the tool exits with status 1 before the client is
\* built; no create-dashboard call is issued.
C16_NoLayoutNoDashboard ==
    dashboard_config.file \in {"missing", "invalid_json"} =>
        /\ pc = "done"
        /\ exitStatus = 1
        /\ "client" \notin ran
        /\ calls = <<>>
        /\ \E i \in 1..Len(output) : output[i].kind = "dashboard_load_failed"

C16_Witness ==
    /\ dashboard_config.file = "invalid_json"
    /\ error = "JSONDecodeError"
    /\ exitStatus = 1

\* The run of the dashboard tool ended and was not interrupted.
DashboardRunEnded == pc = "done" /\ error # "UncaughtKeyboardInterrupt"

\* C17 as stated: whenever the layout file loads and the client is built,
\* exactly one create-dashboard call is issued.
C17_OneCreateCall ==
    (DashboardRunEnded /\ dashboard_config.file = "loaded" /\ "client" \in ran)
    => Len(DashboardCalls) = 1

\* C17: whenever the layout file loads with its displayName and mosaicLayout
\* and the client is built, exactly one create-dashboard call is issued;
\* a missing metrics catalog only skips the validation with a warning, and
\* unresolved references are only printed: neither ends the run before the
\* client is built and the call is made.
C17_OneCreateCallForCompleteLayout ==
    (/\ DashboardRunEnded
     /\ dashboard_config.file = "loaded"
     /\ LayoutKeys \subseteq dashboard_config.keys)
    => /\ "client" \in ran => Len(DashboardCalls) = 1
       /\ "client" \notin ran => Len(DashboardCalls) = 0
       /\ metrics_yaml.file = "missing" =>
             /\ ~ValidationCalled
             /\ \E i \in 1..Len(output) : output[i].kind = "validation_skipped"
             /\ "client" \in ran \/ error = "ClientInit"
       /\ issues # <<>> =>
             /\ Len(SelectSeq(output, LAMBDA l : l.kind = "issue")) = Len(issues)
             /\ "client" \in ran \/ error = "ClientInit"

C17_Witness ==
    /\ DashboardRunEnded
    /\ Len(issues) = 2
    /\ Len(DashboardCalls) = 1
    /\ DashboardCalls[1].answer = "ok"
    /\ exitStatus = 0

(***************************************************************************)
(* Properties of all four tools                                            *)
(***************************************************************************)
Interrupted == error \in {"KeyboardInterrupt", "UncaughtKeyboardInterrupt"}

\* C18: a KeyboardInterrupt arriving at any point of a run is caught by the
\* tool, which then terminates with exit status 1.
C18_InterruptIsCaught ==
    Interrupted => error = "KeyboardInterrupt" /\ exitStatus = 1

MetricCalls(op) == SelectSeq(calls, LAMBDA c : c.op = op)

\* C19: no call is attempted again.  Each of the three budgets gets at most
\* one create call, the dashboard at most one, each catalog metric at most
\* one create and at most one update call, and an update call directly
\* follows a create call for the same metric that was refused with
\* `already exists'.
C19_NoRetry ==
    /\ Len(BudgetCalls) <= 3
    /\ \A i, j \in 1..Len(BudgetCalls) :
           BudgetCalls[i].arg.display_name = BudgetCalls[j].arg.display_name
               => i = j
    /\ Len(DashboardCalls) <= 1
    /\ \A i, j \in 1..Len(MetricCalls("create")) :
           MetricCalls("create")[i].entry = MetricCalls("create")[j].entry
               => i = j
    /\ \A i, j \in 1..Len(MetricCalls("update")) :
           MetricCalls("update")[i].entry = MetricCalls("update")[j].entry
               => i = j
    /\ \A j \in 1..Len(calls) :
           calls[j].op = "update" =>
               /\ j > 1
               /\ calls[j - 1].op = "create"
               /\ calls[j - 1].entry = calls[j].entry
               /\ IsAlreadyExists(calls[j - 1].answer)

\* A refused update is not repeated, and the refused create of the next
\* entry is not either.
C19_Witness ==
    /\ pc = "loop"
    /\ idx > Len(catalog)
    /\ Len(calls) = 3
    /\ calls[1].op = "create" /\ calls[2].op = "update" /\ calls[2].answer # "ok"
    /\ calls[3].op = "create" /\ calls[3].entry = 2 /\ calls[3].answer # "ok"
    /\ ~IsAlreadyExists(calls[3].answer)

(***************************************************************************)
(* Properties of log_test_result                                           *)
(***************************************************************************)
\* In every category the tests listed are the tests counted, and the
\* overall counters are at least the sums over the categories.
CountersConsistent ==
    /\ \A c \in CategorySet :
           Len(results[c].tests) = results[c].passed + results[c].failed
    /\ results["overall"].passed >= SumOver(results, "passed")
    /\ results["overall"].failed >= SumOver(results, "failed")

\* results' is results with one test of category c recorded.
RecordedIn(c) ==
    LET n == Len(results[c].tests)
        entry == results'[c].tests[n + 1]
        counter == IF entry.passed THEN "passed" ELSE "failed"
        other == IF entry.passed THEN "failed" ELSE "passed"
    IN  /\ Len(results'[c].tests) = n + 1
        /\ SubSeq(results'[c].tests, 1, n) = results[c].tests
        /\ DOMAIN entry = {"name", "passed", "details"}
        /\ entry.passed \in BOOLEAN
        /\ results'[c][counter] = results[c][counter] + 1
        /\ results'[c][other] = results[c][other]
        /\ results'["overall"][counter] = results["overall"][counter] + 1
        /\ results'["overall"][other] = results["overall"][other]
        /\ \A d \in CategorySet \ {c} : results'[d] = results[d]

\* C20: every recorded test result appends one {name, passed, details}
\* entry to the list of its category, adds 1 to the passed or the failed
\* counter of that category and to the same overall counter, and leaves
\* the other categories as they were; so always, in each category the
\* length of the list is passed + failed, and the overall counters are at
\* least the sums of the categories' counters.
C20_OneEntryOneCount ==
    /\ []CountersConsistent
    /\ [][results' # results => \E c \in CategorySet : RecordedIn(c)]_vars

C20_Witness ==
    /\ results["budgets"].passed = 1
    /\ results["budgets"].failed = 1
    /\ results["dashboard"].failed = 1
    /\ Len(results["budgets"].tests) = 2
    /\ results["overall"].failed = 2
    /\ results["overall"].passed = 1

(***************************************************************************)
(* Properties of the validation groups                                     *)
(***************************************************************************)
\* test_log_metrics ran last, read a usable catalog (or none) and the
\* listing of the metric descriptors answered.
MetricsListed ==
    /\ answers.step = "log_metrics"
    /\ answers.config.file # "malformed"
    /\ ~answers.descRaises

\* The expected metric names and the positions of those among the user
\* metrics of the project.
ExpectedMetrics ==
    IF answers.config.file = "missing" THEN DefaultMetrics
    ELSE answers.config.names

Matched ==
    {i \in 1..Len(ExpectedMetrics) :
        \E d \in answers.descriptors : d.user /\ d.name = ExpectedMetrics[i]}

FirstMatched ==
    ExpectedMetrics[CHOOSE i \in Matched : \A j \in Matched : i <= j]

SeriesQueries == SelectSeq(calls, LAMBDA c : c.op = "list_time_series")

\* C21: 'Log metrics existence' passes exactly when an expected metric name
\* (from the catalog, or the fallback list when the file is absent) is among
\* the user metrics of the project; the data of a metric is queried exactly
\* when there is such a name, for the first expected name that matches, and
\* 'Metric data availability' passes exactly when a time series is returned.
C21_ExistenceAndData ==
    MetricsListed =>
        LET tests == results["log_metrics"].tests
        IN  /\ tests[1].name = "Log metrics existence"
            /\ tests[1].passed <=> Matched # {}
            /\ Matched = {} => Len(tests) = 1 /\ SeriesQueries = <<>>
            /\ Matched # {} =>
                  /\ Len(tests) = 2
                  /\ SeriesQueries = <<Call("list_time_series", FirstMatched)>>
                  /\ IF answers.seriesRaises
                     THEN tests[2].name = "Metric data query" /\ ~tests[2].passed
                     ELSE /\ tests[2].name = "Metric data availability"
                          /\ tests[2].passed <=> answers.nSeries > 0

\* The catalog is absent, one name of the fallback list is a user metric
\* of the project and its query returns a series.
C21_Witness ==
    /\ MetricsListed
    /\ answers.config.file = "missing"
    /\ Cardinality(Matched) = 1
    /\ FirstMatched = "error_rate"
    /\ Len(results["log_metrics"].tests) = 2
    /\ results["log_metrics"].tests[2].name = "Metric data availability"
    /\ results["log_metrics"].tests[2].passed

\* test_budget_alerts ran last, billing is enabled and the listing of the
\* budgets answered.
BudgetsListed ==
    /\ answers.step = "budgets"
    /\ answers.billing = "enabled"
    /\ ~answers.listRaises

\* The listed budgets whose display name contains 'DressUp AI'.
MatchingBudgets ==
    SelectSeq(answers.budget_list,
              LAMBDA b : b.display_name \in {"DressUp AI - Daily Budget ($50)",
                                             "DressUp AI - Monthly Budget ($1500)"})

\* C22: with billing enabled and k listed budgets whose display name
\* contains 'DressUp AI', the budgets group records 2 + k tests: 'Billing
\* enabled' passed, 'Budget alerts existence' passed exactly when k > 0, and
\* for each matching budget, in the order listed, one threshold test that
\* passes exactly when the budget has at least 4 threshold rules; the other
\* budgets give no test.
C22_TwoPlusMatchingTests ==
    BudgetsListed =>
        LET tests == results["budgets"].tests
            k == Len(MatchingBudgets)
        IN  /\ Len(tests) = 2 + k
            /\ tests[1].name = "Billing enabled" /\ tests[1].passed
            /\ tests[2].name = "Budget alerts existence"
            /\ tests[2].passed <=> k > 0
            /\ \A i \in 1..k :
                  /\ tests[2 + i].name
                        = ThresholdTestName(MatchingBudgets[i].display_name)
                  /\ tests[2 + i].passed
                        <=> MatchingBudgets[i].threshold_rules >= 4

\* Two budgets are listed, one of them matches and has 3 threshold rules.
C22_Witness ==
    /\ BudgetsListed
    /\ Len(answers.budget_list) = 2
    /\ answers.budget_list[1].display_name = "dressup ai - legacy"
    /\ Len(MatchingBudgets) = 1
    /\ MatchingBudgets[1].threshold_rules = 3
    /\ Len(results["budgets"].tests) = 3
    /\ ~results["budgets"].tests[3].passed

(***************************************************************************)
(* The budgets of the provisioner under the checks of the validator        *)
(***************************************************************************)
\* C23: every budget the provisioner creates has a display name that
\* contains 'DressUp AI' and 5 threshold rules; when the validator lists
\* the n >= 1 budgets a run created, with billing enabled, its budgets
\* category holds 2 + n tests, all passed, and has status PASS.
C23_CreatedBudgetsPass ==
    /\ \A i \in 1..Len(CreatedBudgets) :
           /\ Contains(DressUpAI, CreatedBudgets[i].arg.display_name)
           /\ Len(CreatedBudgets[i].arg.threshold_rules) = 5
           /\ \E n \in ProvisionedNames :
                  NameChars(n) = CreatedBudgets[i].arg.display_name
    /\ pc = "validated" /\ Len(CreatedBudgets) >= 1 =>
           LET tests == results["budgets"].tests
           IN  /\ Len(answers.budget_list) = Len(CreatedBudgets)
               /\ Len(tests) = 2 + Len(CreatedBudgets)
               /\ \A i \in 1..Len(tests) : tests[i].passed
               /\ results["budgets"].passed = 2 + Len(CreatedBudgets)
               /\ results["budgets"].failed = 0
               /\ report.categories["budgets"].status = "PASS"

\* The run created the daily and the Vertex AI budget, the monthly one was
\* refused, and the validator has listed the two.
C23_Witness ==
    /\ pc = "validated"
    /\ Len(BudgetCalls) = 3
    /\ Len(CreatedBudgets) = 2
    /\ BudgetCalls[2].answer # "ok"
    /\ Len(results["budgets"].tests) = 4
    /\ report.categories["budgets"].status = "PASS"

=============================================================================
